---- MODULE Spec2Model ----
(***************************************************************************)
(* cachekit: an in-memory key/value cache with per-entry expiration and a  *)
(* periodic sweep (Cache), modelled from the Cache type that the sharded   *)
(* router (shardcache.go) is built on.                                     *)
(*                                                                         *)
(* Time is counted in clock ticks; Second ticks make one Unix second.  A   *)
(* time.Duration is a number of ticks, so NoExpirationTime = -1 is one     *)
(* tick (in the program: one nanosecond) before "now".  time.Time.Unix()   *)
(* is the floor division by Second.                                        *)
(*                                                                         *)
(* Every public method takes the Cache's mutex for its whole body, so in   *)
(* this specification one action is one whole method call.                 *)
(***************************************************************************)
EXTENDS Integers, Sequences, FiniteSets, TLC

\* ------------------------------------------------------------------ bounds
\* Clock ticks per Unix second (the program's clock has 10^9 per second).
Second == 2
\* The clock stops advancing at MaxTime ticks.
MaxTime == 6
\* The longest positive duration a caller passes as a TTL.
MaxTTL == 2
\* The largest shard count a ShardedCache is built with.
MaxShards == 2
\* The clock of a run on a ShardedCache stops advancing at this many ticks.
MaxRouterTime == 4
\* The clock stops advancing at this many ticks before goroutines are started.
MaxConcTime == 3

\* --------------------------------------------------------------- constants
DefaultExpirationTime == 0
NoExpirationTime == -1

Keys == {"a", "b"}
Values == {"v1", "v2"}
\* The nil interface value returned for a key that is not found.
Nil == "nil"

\* Durations passed as a per-call TTL: the two sentinels and positive ones.
TTLs == {DefaultExpirationTime, NoExpirationTime} \cup (1..MaxTTL)
\* Default TTLs a Cache is built with.
ExpirationTimes == {MaxTTL}
\* Sweep intervals a Cache is built with: the two values that disable the
\* sweep, a sweep every tick, and a negative interval that is not the
\* NoExpirationTime sentinel.
CleanupTimes == {0, NoExpirationTime, 1, -2}
\* Instants at which the Cache is built: every phase within one second,
\* one second or more after the epoch.
StartTimes == Second..(2 * Second - 1)

VARIABLES
    now,      \* the wall clock, in ticks (time.Now())
    cache,    \* the Cache struct
    ticker,   \* the cleanUpCache goroutine and its time.Ticker
    written,  \* history: per key, what the last successful Add/Set stored, or
              \* the Delete or Flush that came after it
    ret,      \* the last call made and what it returned
    sc,       \* the ShardedCache struct (its shards are Cache structs)
    scRet,    \* the last call made on the ShardedCache and what it returned
    mutex,    \* the sync.RWMutex of each shard
    procs     \* the goroutines calling the ShardedCache concurrently

vars == <<now, cache, ticker, written, ret, sc, scRet, mutex, procs>>

\* ------------------------------------------------------------ pure helpers

\* time.Time.Unix(): whole seconds since the epoch, rounded down.
Unix(t) == t \div Second

\* time.Unix(sec, 0): the instant of a whole second.
TimeUnix(sec) == sec * Second

\* time.Time{}: the zero instant (year 1), far before the epoch and before
\* every instant the model reaches (its true second count, -62135596800,
\* is scaled down to fit the model checker's integers).
ZeroTime == TimeUnix(-1000000)

Range(s) == {s[i] : i \in 1..Len(s)}

\* slices.Contains
Contains(s, value) == value \in Range(s)

\* slices.Index: the first index holding value, 0 when there is none.
Index(s, value) ==
    IF Contains(s, value)
    THEN CHOOSE i \in 1..Len(s) : s[i] = value /\ \A j \in 1..(i - 1) : s[j] # value
    ELSE 0

removeByValue(s, value) ==
    LET index == Index(s, value) IN
    IF index # 0
    THEN SubSeq(s, 1, index - 1) \o SubSeq(s, index + 1, Len(s))
    ELSE s

\* entries[key] = e
Put(entries, key, e) ==
    [x \in (DOMAIN entries) \cup {key} |-> IF x = key THEN e ELSE entries[x]]

\* delete(entries, key)
Remove(entries, key) == [x \in (DOMAIN entries) \ {key} |-> entries[x]]

EmptyEntries == [x \in {} |-> 0]

\* ------------------------------------------------------------------- Cache

\* What New stores in the struct, built at instant t.
New(expirationTime, cleanupTime, t) ==
    [ expirationTime  |-> expirationTime,
      cleanupTime     |-> cleanupTime,
      nextCleanupTime |-> Unix(t + cleanupTime),
      expiringKeys    |-> <<>>,
      entries         |-> EmptyEntries ]

\* Mutant: New forgets that NoExpirationTime disables the sweep.
StartsCleanupUnlessZero(cleanupTime) == cleanupTime # 0

\* Whether New starts the cleanUpCache goroutine.
StartsCleanup(cleanupTime) ==
    cleanupTime # 0 /\ cleanupTime # NoExpirationTime

\* The expiration timestamp Add and Set compute at instant t.
Expiration(c, expirationTime, t) ==
    IF expirationTime = DefaultExpirationTime
    THEN Unix(t + c.expirationTime)
    ELSE Unix(t + expirationTime)

\* Mutant: the sweep also removes an entry in the second it expires in.
ExpiredInclusive(e, currentTimestamp) ==
    /\ e.ExpirationTimestamp <= currentTimestamp
    /\ e.ExpirationTimestamp # NoExpirationTime

\* The sweep's test on one entry.
Expired(e, currentTimestamp) ==
    /\ e.ExpirationTimestamp < currentTimestamp
    /\ e.ExpirationTimestamp # NoExpirationTime

\* The loop of removeExpiredEntries over the keys still to visit.
RECURSIVE sweepLoop(_, _, _, _)
sweepLoop(entries, keys, remainingKeys, currentTimestamp) ==
    IF keys = <<>>
    THEN [entries |-> entries, remainingKeys |-> remainingKeys]
    ELSE LET key == Head(keys) IN
         IF key \notin DOMAIN entries
         THEN sweepLoop(entries, Tail(keys), remainingKeys, currentTimestamp)
         ELSE IF Expired(entries[key], currentTimestamp)
              THEN sweepLoop(Remove(entries, key), Tail(keys), remainingKeys,
                             currentTimestamp)
              ELSE sweepLoop(entries, Tail(keys), Append(remainingKeys, key),
                             currentTimestamp)

\* Mutant: the sweep deletes the expired entries and leaves the tracked keys
\* as they were.
removeExpiredEntriesKeepsKeys(c, t) ==
    LET r == sweepLoop(c.entries, c.expiringKeys, <<>>, Unix(t)) IN
    [c EXCEPT !.entries = r.entries]

\* The elements of a set of keys as a list (used by the mutant below).
RECURSIVE ListOf(_)
ListOf(S) ==
    IF S = {} THEN <<>>
    ELSE LET x == CHOOSE y \in S : TRUE IN <<x>> \o ListOf(S \ {x})

\* Mutant: the sweep rebuilds the tracked keys from every surviving entry.
removeExpiredEntriesRebuilds(c, t) ==
    LET r == sweepLoop(c.entries, c.expiringKeys, <<>>, Unix(t)) IN
    [c EXCEPT !.entries = r.entries,
              !.expiringKeys =
                  r.remainingKeys \o
                  ListOf(DOMAIN r.entries \ Range(r.remainingKeys))]

removeExpiredEntries(c, t) ==
    LET r == sweepLoop(c.entries, c.expiringKeys, <<>>, Unix(t)) IN
    [c EXCEPT !.entries = r.entries, !.expiringKeys = r.remainingKeys]

\* Mutant: Get hides an entry whose expiration second has passed.
GetEager(c, key) ==
    IF key \notin DOMAIN c.entries \/ Expired(c.entries[key], Unix(now))
    THEN [content |-> Nil, found |-> FALSE]
    ELSE [content |-> c.entries[key].Content, found |-> TRUE]

Get(c, key) ==
    IF key \notin DOMAIN c.entries
    THEN [content |-> Nil, found |-> FALSE]
    ELSE [content |-> c.entries[key].Content, found |-> TRUE]

GetWithExpiration(c, key) ==
    IF key \notin DOMAIN c.entries
    THEN [content |-> Nil, expiration |-> ZeroTime, found |-> FALSE]
    ELSE [content |-> c.entries[key].Content,
          expiration |-> TimeUnix(c.entries[key].ExpirationTimestamp),
          found |-> TRUE]

\* Mutant: Add reports AlreadyExists but goes on to store the entry.
AddOverwrites(c, key, content, expirationTime, t) ==
    LET expiration == Expiration(c, expirationTime, t)
        tracked == IF expiration <= c.nextCleanupTime
                   THEN Append(c.expiringKeys, key)
                   ELSE c.expiringKeys
    IN [cache |-> [c EXCEPT
                     !.expiringKeys = tracked,
                     !.entries = Put(c.entries, key,
                         [Content |-> content,
                          ExpirationTimestamp |-> expiration])],
        err |-> IF key \in DOMAIN c.entries THEN "AlreadyExists" ELSE "nil"]

\* Add at instant t: the Cache afterwards and the error returned.
Add(c, key, content, expirationTime, t) ==
    IF key \in DOMAIN c.entries
    THEN [cache |-> c, err |-> "AlreadyExists"]
    ELSE LET expiration == Expiration(c, expirationTime, t)
             tracked == IF expiration <= c.nextCleanupTime
                        THEN Append(c.expiringKeys, key)
                        ELSE c.expiringKeys
         IN [cache |-> [c EXCEPT
                          !.expiringKeys = tracked,
                          !.entries = Put(c.entries, key,
                              [Content |-> content,
                               ExpirationTimestamp |-> expiration])],
             err |-> "nil"]

\* Mutant: Set does not take the key out of the tracked keys first.
SetAppends(c, key, content, expirationTime, t) ==
    LET expiration == Expiration(c, expirationTime, t)
        tracked == IF expiration <= c.nextCleanupTime
                   THEN Append(c.expiringKeys, key)
                   ELSE c.expiringKeys
    IN [c EXCEPT
          !.expiringKeys = tracked,
          !.entries = Put(c.entries, key,
              [Content |-> content, ExpirationTimestamp |-> expiration])]

\* Set at instant t: the Cache afterwards.
Set(c, key, content, expirationTime, t) ==
    LET expiration == Expiration(c, expirationTime, t)
        untracked == IF Contains(c.expiringKeys, key)
                     THEN removeByValue(c.expiringKeys, key)
                     ELSE c.expiringKeys
        tracked == IF expiration <= c.nextCleanupTime
                   THEN Append(untracked, key)
                   ELSE untracked
    IN [c EXCEPT
          !.expiringKeys = tracked,
          !.entries = Put(c.entries, key,
              [Content |-> content, ExpirationTimestamp |-> expiration])]

\* Mutant: Delete does not look the key up first.
DeleteUnchecked(c, key) ==
    [cache |-> [c EXCEPT
                  !.expiringKeys = IF Contains(c.expiringKeys, key)
                                   THEN removeByValue(c.expiringKeys, key)
                                   ELSE c.expiringKeys,
                  !.entries = Remove(c.entries, key)],
     err |-> "nil"]

\* Mutant: Delete removes the entry and leaves the tracked keys alone.
DeleteKeepsTracking(c, key) ==
    IF key \notin DOMAIN c.entries
    THEN [cache |-> c, err |-> "NotFound"]
    ELSE [cache |-> [c EXCEPT !.entries = Remove(c.entries, key)],
          err |-> "nil"]

\* Delete: the Cache afterwards and the error returned.
Delete(c, key) ==
    IF key \notin DOMAIN c.entries
    THEN [cache |-> c, err |-> "NotFound"]
    ELSE [cache |-> [c EXCEPT
                       !.expiringKeys = IF Contains(c.expiringKeys, key)
                                        THEN removeByValue(c.expiringKeys, key)
                                        ELSE c.expiringKeys,
                       !.entries = Remove(c.entries, key)],
          err |-> "nil"]

\* Mutant: Flush clears the entries and leaves the tracked keys alone.
FlushKeepsTracking(c) == [c EXCEPT !.entries = EmptyEntries]

Flush(c) == [c EXCEPT !.entries = EmptyEntries, !.expiringKeys = <<>>]

Length(c) == Cardinality(DOMAIN c.entries)

\* ----------------------------------------------------------------- history

\* What the callers have done to a key: nothing yet ("none"), removed it
\* ("Delete", "Flush"), or stored it: with the "never" TTL ("never"), with a
\* positive TTL d at instant t ("finite", expiresAt = t + d, in ticks), or
\* with a default TTL that is not positive ("immediate").
NoWrite == [state |-> "none", content |-> Nil, expiresAt |-> 0]
Gone(how) == [state |-> how, content |-> Nil, expiresAt |-> 0]
Stored(c, content, expirationTime, t) ==
    LET d == IF expirationTime = DefaultExpirationTime
             THEN c.expirationTime ELSE expirationTime
    IN  IF expirationTime = NoExpirationTime
        THEN [state |-> "never", content |-> content, expiresAt |-> 0]
        ELSE IF d > 0
             THEN [state |-> "finite", content |-> content, expiresAt |-> t + d]
             ELSE [state |-> "immediate", content |-> content, expiresAt |-> 0]
IsStored(w) == w.state \in {"never", "finite", "immediate"}

\* A call record: every field a call does not use keeps its default.
Call(op) ==
    [op |-> op, key |-> "", content |-> Nil, expiration |-> 0,
     found |-> FALSE, err |-> "nil", n |-> 0]

\* ------------------------------------------------------------ ShardedCache

\* []byte(key)
KeyBytes(key) == CASE key = "a" -> <<97>> [] key = "b" -> <<98>>

\* Bitwise exclusive or of two natural numbers.
RECURSIVE Xor(_, _)
Xor(x, y) ==
    IF x = 0 THEN y
    ELSE IF y = 0 THEN x
    ELSE ((x + y) % 2) + 2 * Xor(x \div 2, y \div 2)

\* A 32-bit hash value is kept as two 16-bit halves: value = hi * 2^16 + lo.
\* fnv.New32(): the FNV-1 offset basis 2166136261 = 0x811C9DC5.
fnvNew32 == [hi |-> 33052, lo |-> 40389]

\* hash *= prime32, modulo 2^32, with prime32 = 16777619 = 2^24 + 403.
fnvMul(h) ==
    LET low == h.lo * 403 IN
    [hi |-> (h.hi * 403 + (low \div 65536) + (h.lo % 256) * 256) % 65536,
     lo |-> low % 65536]

\* hash.Write(data) of FNV-1: for each byte, multiply, then xor the byte in.
RECURSIVE fnvWrite(_, _)
fnvWrite(h, data) ==
    IF data = <<>> THEN h
    ELSE LET m == fnvMul(h) IN
         fnvWrite([hi |-> m.hi,
                   lo |-> (m.lo \div 256) * 256 + Xor(m.lo % 256, Head(data))],
                  Tail(data))

\* hash.Sum32() % uint32(n), for n > 0.
Sum32Mod(h, n) == ((h.hi % n) * (65536 % n) + h.lo) % n

\* The FNV-1 hash of each key: fnv.New32(), hash.Write([]byte(key)).
KeyHash == [key \in Keys |-> fnvWrite(fnvNew32, KeyBytes(key))]

\* No ShardedCache has been built.
NoShardedCache == [built |-> FALSE, shardCount |-> 0, shards |-> <<>>]

\* NewShardedCache at instant t: make([]*Cache, shardCount) panics for a
\* negative shardCount, and then no ShardedCache is returned.
NewShardedCache(shardCount, expirationTime, cleanupTime, t) ==
    IF shardCount < 0
    THEN [built |-> FALSE, shardCount |-> shardCount, shards |-> <<>>]
    ELSE [built |-> TRUE,
          shardCount |-> shardCount,
          shards |-> [i \in 1..shardCount |-> New(expirationTime, cleanupTime, t)]]

\* Mutant: the shard is picked from the length of the key.
getShardByLength(s, key) ==
    IF s.shardCount = 0
    THEN [panic |-> TRUE, shardIndex |-> 0]
    ELSE [panic |-> FALSE, shardIndex |-> Len(KeyBytes(key)) % s.shardCount]

\* getShard: the index of the shard of key (counted from 0, as in Go); the
\* modulo panics (integer divide by zero) when shardCount is 0.
getShard(s, key) ==
    IF s.shardCount = 0
    THEN [panic |-> TRUE, shardIndex |-> 0]
    ELSE [panic |-> FALSE,
          shardIndex |-> Sum32Mod(KeyHash[key], s.shardCount)]

\* The shard getShard returns (sequences are counted from 1).
ShardOf(s, key) == s.shards[getShard(s, key).shardIndex + 1]

\* The ShardedCache with the shard of key replaced by c.
WithShard(s, key, c) ==
    [s EXCEPT !.shards[getShard(s, key).shardIndex + 1] = c]

\* The call record of a call that panicked.
Panicked(op, key) == [Call(op) EXCEPT !.key = key, !.err = "panic"]

\* Each ShardedCache method: the ShardedCache afterwards and the call record
\* of what it returned.
ShardedGet(s, key) ==
    IF getShard(s, key).panic
    THEN [sc |-> s, ret |-> Panicked("Get", key)]
    ELSE LET g == Get(ShardOf(s, key), key) IN
         [sc |-> s,
          ret |-> [Call("Get") EXCEPT
                     !.key = key, !.content = g.content, !.found = g.found]]

ShardedGetWithExpiration(s, key) ==
    IF getShard(s, key).panic
    THEN [sc |-> s, ret |-> Panicked("GetWithExpiration", key)]
    ELSE LET g == GetWithExpiration(ShardOf(s, key), key) IN
         [sc |-> s,
          ret |-> [Call("GetWithExpiration") EXCEPT
                     !.key = key, !.content = g.content,
                     !.expiration = g.expiration, !.found = g.found]]

ShardedAdd(s, key, content, expirationTime, t) ==
    IF getShard(s, key).panic
    THEN [sc |-> s, ret |-> Panicked("Add", key)]
    ELSE LET r == Add(ShardOf(s, key), key, content, expirationTime, t) IN
         [sc |-> WithShard(s, key, r.cache),
          ret |-> [Call("Add") EXCEPT !.key = key, !.err = r.err]]

ShardedSet(s, key, content, expirationTime, t) ==
    IF getShard(s, key).panic
    THEN [sc |-> s, ret |-> Panicked("Set", key)]
    ELSE [sc |-> WithShard(s, key,
                     Set(ShardOf(s, key), key, content, expirationTime, t)),
          ret |-> [Call("Set") EXCEPT !.key = key]]

ShardedDelete(s, key) ==
    IF getShard(s, key).panic
    THEN [sc |-> s, ret |-> Panicked("Delete", key)]
    ELSE LET r == Delete(ShardOf(s, key), key) IN
         [sc |-> WithShard(s, key, r.cache),
          ret |-> [Call("Delete") EXCEPT !.key = key, !.err = r.err]]

\* Mutant: the loop of Flush stops after the first shard.
ShardedFlushFirst(s) ==
    [sc |-> [s EXCEPT !.shards =
                [i \in 1..s.shardCount |->
                    IF i = 1 THEN Flush(s.shards[i]) ELSE s.shards[i]]],
     ret |-> Call("Flush")]

\* Flush, run with no other call in between: every shard flushed in turn.
ShardedFlush(s) ==
    [sc |-> [s EXCEPT !.shards = [i \in 1..s.shardCount |-> Flush(s.shards[i])]],
     ret |-> Call("Flush")]

\* ------------------------------------------------------------- goroutines

\* sync.RWMutex of one Cache: whether a writer holds it and how many readers
\* hold it.
NewMutex == [writer |-> FALSE, readers |-> 0]

\* Mutant: Lock returns while another writer or readers hold the mutex.
CanLockAlways(m) == TRUE

\* Mutant: Lock waits for the writer only.
CanLockIgnoringReaders(m) == ~m.writer

\* mutex.Lock() returns when no writer and no reader holds the mutex.
CanLock(m) == ~m.writer /\ m.readers = 0

\* Mutant: RLock returns while a writer holds the mutex.
CanRLockAlways(m) == TRUE

\* mutex.RLock() returns when no writer holds the mutex.
CanRLock(m) == ~m.writer

\* Mutant: a return path without the Unlock.
UnlockForgotten(m) == m

Lock(m) == [m EXCEPT !.writer = TRUE]
Unlock(m) == [m EXCEPT !.writer = FALSE]
RLock(m) == [m EXCEPT !.readers = @ + 1]
RUnlock(m) == [m EXCEPT !.readers = @ - 1]

\* The methods that take the read lock, and those that take the write lock.
ReadOps == {"Get", "GetWithExpiration", "Length"}
WriteOps == {"Add", "Set", "Delete", "Flush", "removeExpiredEntries"}

\* Mutant: a call on shard i takes the locks of the shards up to i.
LocksUpTo(s, i) == 1..i

\* Mutant: a call takes the locks of all the shards.
LocksAll(s, i) == 1..s.shardCount

\* The mutexes a call delegated to shard i takes: the shard's own, the
\* ShardedCache having none.
Locks(s, i) == {i}

\* The goroutines of the program: two writers, a reader, and the cleanUpCache
\* goroutine of each shard.
Procs == {"w1", "w2", "r"}
Sweepers == <<"s1", "s2">>

\* A call a goroutine makes.
Job(op, key, content, expirationTime) ==
    [op |-> op, key |-> key, content |-> content, ttl |-> expirationTime]

\* The calls each goroutine chooses from; the writers work on different keys.
Jobs ==
    [w1 |-> {Job("Set", "a", "v2", NoExpirationTime),
             Job("Add", "a", "v2", DefaultExpirationTime),
             Job("Delete", "a", Nil, 0),
             Job("Flush", "", Nil, 0)},
     w2 |-> {Job("Set", "b", "v2", DefaultExpirationTime),
             Job("Get", "b", Nil, 0)},
     r  |-> {Job("Get", "a", Nil, 0),
             Job("Get", "b", Nil, 0),
             Job("GetWithExpiration", "a", Nil, 0),
             Job("Length", "", Nil, 0)}]

\* A goroutine: where it is in its call ("idle" before the call, "wait" at
\* Lock or RLock, "in" between the lock and the unlock, "done" after the
\* return), the call, the shard it is at, what it read of the shard when it
\* took the lock, and what the call returned.
NoCache == New(0, 0, 0)
IdleProc ==
    [pc |-> "idle", job |-> Job("none", "", Nil, 0), shard |-> 0,
     seen |-> NoCache, ret |-> Call("none")]
NoProcs == [p \in Procs \cup Range(Sweepers) |-> IdleProc]

\* What a method does between the lock and the unlock: the shard it leaves
\* and the call record of what it returns. A method that changes the shard
\* works from seen, what it read of the shard when it took the lock.
\* GetWithExpiration copies the two words of the entry one after the other:
\* Content when it took the lock, ExpirationTimestamp (in c, the shard as it
\* is now) before it unlocks.
Body(job, seen, c, t) ==
    LET base == [Call(job.op) EXCEPT !.key = job.key] IN
    CASE job.op = "Get" ->
           [cache |-> c,
            ret |-> [base EXCEPT !.content = Get(seen, job.key).content,
                                 !.found = Get(seen, job.key).found]]
      [] job.op = "GetWithExpiration" ->
           LET g == GetWithExpiration(seen, job.key)
               late == IF job.key \in DOMAIN c.entries
                       THEN GetWithExpiration(c, job.key) ELSE g IN
           [cache |-> c,
            ret |-> [base EXCEPT
                       !.content = g.content,
                       !.expiration = IF g.found THEN late.expiration
                                      ELSE g.expiration,
                       !.found = g.found]]
      [] job.op = "Length" ->
           [cache |-> c, ret |-> [base EXCEPT !.n = Length(seen)]]
      [] job.op = "Add" ->
           LET r == Add(seen, job.key, job.content, job.ttl, t) IN
           [cache |-> r.cache, ret |-> [base EXCEPT !.err = r.err]]
      [] job.op = "Set" ->
           [cache |-> Set(seen, job.key, job.content, job.ttl, t),
            ret |-> [base EXCEPT !.content = job.content]]
      [] job.op = "Delete" ->
           LET r == Delete(seen, job.key) IN
           [cache |-> r.cache, ret |-> [base EXCEPT !.err = r.err]]
      [] job.op = "Flush" ->
           [cache |-> Flush(seen), ret |-> base]
      [] job.op = "removeExpiredEntries" ->
           [cache |-> removeExpiredEntries(seen, t),
            ret |-> [base EXCEPT
                       !.n = Length(seen) - Length(removeExpiredEntries(seen, t))]]

\* ------------------------------------------------------------------ actions

Init ==
    /\ now \in StartTimes
    /\ \E expirationTime \in ExpirationTimes, cleanupTime \in CleanupTimes :
         /\ cache = New(expirationTime, cleanupTime, now)
         /\ ticker = [running |-> StartsCleanup(cleanupTime),
                      next |-> now + cleanupTime,
                      panicked |-> FALSE]
    /\ written = [k \in Keys |-> NoWrite]
    /\ ret = Call("New")
    /\ sc = NoShardedCache
    /\ scRet = Call("none")
    /\ mutex = <<>>
    /\ procs = <<>>

\* The clock advances by one tick.
Tick ==
    /\ now < MaxTime
    /\ now' = now + 1
    /\ ret' = Call("Tick")
    /\ UNCHANGED <<cache, ticker, written>>

\* time.NewTicker(d) returns a ticker for a positive d and panics otherwise.
NewTickerReturns(d) == d > 0

\* The first statement of cleanUpCache: time.NewTicker panics on an interval
\* that is not positive, and a panic in a goroutine ends the whole process.
cleanUpCachePanics ==
    /\ ticker.running
    /\ ~NewTickerReturns(cache.cleanupTime)
    /\ ~ticker.panicked
    /\ ticker' = [ticker EXCEPT !.panicked = TRUE]
    /\ ret' = [Call("cleanUpCache") EXCEPT !.err = "panic"]
    /\ UNCHANGED <<now, cache, written>>

\* One iteration of cleanUpCache's loop: the ticker has fired and the
\* goroutine, scheduled now or later, runs one sweep pass.
cleanUpCache ==
    /\ ticker.running
    /\ NewTickerReturns(cache.cleanupTime)
    /\ now >= ticker.next
    /\ cache' = removeExpiredEntries(cache, now)
    /\ ticker' = [ticker EXCEPT !.next = @ + cache.cleanupTime]
    /\ ret' = [Call("removeExpiredEntries") EXCEPT
                 !.n = Length(cache) - Length(cache')]
    /\ UNCHANGED <<now, written>>

CallGet(key) ==
    /\ ret' = [Call("Get") EXCEPT
                 !.key = key,
                 !.content = Get(cache, key).content,
                 !.found = Get(cache, key).found]
    /\ UNCHANGED <<now, cache, ticker, written>>

CallGetWithExpiration(key) ==
    /\ ret' = [Call("GetWithExpiration") EXCEPT
                 !.key = key,
                 !.content = GetWithExpiration(cache, key).content,
                 !.expiration = GetWithExpiration(cache, key).expiration,
                 !.found = GetWithExpiration(cache, key).found]
    /\ UNCHANGED <<now, cache, ticker, written>>

CallAdd(key, content, expirationTime) ==
    LET r == Add(cache, key, content, expirationTime, now) IN
    /\ cache' = r.cache
    /\ written' = IF r.err = "nil"
                  THEN [written EXCEPT ![key] = Stored(cache, content, expirationTime, now)]
                  ELSE written
    /\ ret' = [Call("Add") EXCEPT !.key = key, !.err = r.err]
    /\ UNCHANGED <<now, ticker>>

CallSet(key, content, expirationTime) ==
    /\ cache' = Set(cache, key, content, expirationTime, now)
    /\ written' = [written EXCEPT ![key] = Stored(cache, content, expirationTime, now)]
    /\ ret' = [Call("Set") EXCEPT !.key = key]
    /\ UNCHANGED <<now, ticker>>

CallDelete(key) ==
    LET r == Delete(cache, key) IN
    /\ cache' = r.cache
    /\ written' = IF r.err = "nil"
                  THEN [written EXCEPT ![key] = Gone("Delete")]
                  ELSE written
    /\ ret' = [Call("Delete") EXCEPT !.key = key, !.err = r.err]
    /\ UNCHANGED <<now, ticker>>

CallFlush ==
    /\ cache' = Flush(cache)
    /\ written' = [k \in Keys |->
                     IF IsStored(written[k])
                     THEN Gone("Flush") ELSE written[k]]
    /\ ret' = Call("Flush")
    /\ UNCHANGED <<now, ticker>>

CallLength ==
    /\ ret' = [Call("Length") EXCEPT !.n = Length(cache)]
    /\ UNCHANGED <<now, cache, ticker, written>>

\* The process runs until a goroutine panics.
Alive == ~ticker.panicked

\* A step of a program that uses no ShardedCache.
RouterIdle == UNCHANGED <<sc, scRet, mutex, procs>>

Next ==
    \/ Alive /\ Tick /\ RouterIdle
    \/ Alive /\ cleanUpCache /\ RouterIdle
    \/ cleanUpCachePanics /\ RouterIdle
    \/ \E key \in Keys : Alive /\ CallGet(key) /\ RouterIdle
    \/ \E key \in Keys : Alive /\ CallGetWithExpiration(key) /\ RouterIdle
    \/ \E key \in Keys, content \in Values, expirationTime \in TTLs :
         Alive /\ CallAdd(key, content, expirationTime) /\ RouterIdle
    \/ \E key \in Keys, content \in Values, expirationTime \in TTLs :
         Alive /\ CallSet(key, content, expirationTime) /\ RouterIdle
    \/ \E key \in Keys : Alive /\ CallDelete(key) /\ RouterIdle
    \/ Alive /\ CallFlush /\ RouterIdle
    \/ Alive /\ CallLength /\ RouterIdle

Spec == Init /\ [][Next]_vars

\* ------------------------------------------- a program with a ShardedCache
\* The calls are made one after the other on a ShardedCache and, with the
\* same arguments at the same instants, on one Cache built with the same
\* default TTL and sweep interval; the tickers of all the shards were started
\* at the same instant as the Cache's, so their sweep passes run together.

ShardCounts == (-1)..MaxShards
RouterCleanupTimes == {0, 1}
\* Per-call TTLs: the two sentinels and one tick.
RouterTTLs == {DefaultExpirationTime, NoExpirationTime, 1}

InitSharded ==
    /\ now \in StartTimes
    /\ \E expirationTime \in ExpirationTimes, cleanupTime \in RouterCleanupTimes,
          shardCount \in ShardCounts :
         /\ cache = New(expirationTime, cleanupTime, now)
         /\ ticker = [running |-> StartsCleanup(cleanupTime),
                      next |-> now + cleanupTime,
                      panicked |-> FALSE]
         /\ sc = NewShardedCache(shardCount, expirationTime, cleanupTime, now)
         /\ scRet = IF shardCount < 0
                    THEN Panicked("NewShardedCache", "")
                    ELSE Call("NewShardedCache")
    /\ written = [k \in Keys |-> NoWrite]
    /\ ret = Call("New")
    /\ mutex = <<>>
    /\ procs = <<>>

\* The process runs while no call has panicked.
RouterAlive == sc.built /\ scRet.err # "panic"

\* The calls are made by one goroutine, one after the other.
OneGoroutine == UNCHANGED <<mutex, procs>>

\* A call that panicked inside the ShardedCache never reached the Cache.
CacheIdle == UNCHANGED <<now, cache, ticker, written, ret>>

RouterTick ==
    /\ RouterAlive
    /\ now < MaxRouterTime
    /\ Tick
    /\ scRet' = Call("Tick")
    /\ sc' = sc

\* The sweep passes of all the shards, and of the Cache.
RouterCleanUp ==
    /\ RouterAlive
    /\ cleanUpCache
    /\ sc' = [sc EXCEPT !.shards =
                [i \in 1..sc.shardCount |-> removeExpiredEntries(sc.shards[i], now)]]
    /\ scRet' = Call("removeExpiredEntries")

RouterGet(key) ==
    LET r == ShardedGet(sc, key) IN
    /\ RouterAlive
    /\ sc' = r.sc
    /\ scRet' = r.ret
    /\ IF r.ret.err = "panic" THEN CacheIdle ELSE CallGet(key)

RouterGetWithExpiration(key) ==
    LET r == ShardedGetWithExpiration(sc, key) IN
    /\ RouterAlive
    /\ sc' = r.sc
    /\ scRet' = r.ret
    /\ IF r.ret.err = "panic" THEN CacheIdle ELSE CallGetWithExpiration(key)

RouterAdd(key, content, expirationTime) ==
    LET r == ShardedAdd(sc, key, content, expirationTime, now) IN
    /\ RouterAlive
    /\ sc' = r.sc
    /\ scRet' = r.ret
    /\ IF r.ret.err = "panic" THEN CacheIdle
       ELSE CallAdd(key, content, expirationTime)

RouterSet(key, content, expirationTime) ==
    LET r == ShardedSet(sc, key, content, expirationTime, now) IN
    /\ RouterAlive
    /\ sc' = r.sc
    /\ scRet' = r.ret
    /\ IF r.ret.err = "panic" THEN CacheIdle
       ELSE CallSet(key, content, expirationTime)

RouterDelete(key) ==
    LET r == ShardedDelete(sc, key) IN
    /\ RouterAlive
    /\ sc' = r.sc
    /\ scRet' = r.ret
    /\ IF r.ret.err = "panic" THEN CacheIdle ELSE CallDelete(key)

RouterFlush ==
    LET r == ShardedFlush(sc) IN
    /\ RouterAlive
    /\ sc' = r.sc
    /\ scRet' = r.ret
    /\ CallFlush

NextSharded ==
    \/ RouterTick /\ OneGoroutine
    \/ RouterCleanUp /\ OneGoroutine
    \/ \E key \in Keys : RouterGet(key) /\ OneGoroutine
    \/ \E key \in Keys : RouterGetWithExpiration(key) /\ OneGoroutine
    \/ \E key \in Keys, content \in Values, expirationTime \in RouterTTLs :
         RouterAdd(key, content, expirationTime) /\ OneGoroutine
    \/ \E key \in Keys, content \in Values, expirationTime \in RouterTTLs :
         RouterSet(key, content, expirationTime) /\ OneGoroutine
    \/ \E key \in Keys : RouterDelete(key) /\ OneGoroutine
    \/ RouterFlush /\ OneGoroutine

SpecSharded == InitSharded /\ [][NextSharded]_vars

\* ---------------------------------- a program with concurrent goroutines
\* The main goroutine builds a ShardedCache and stores some keys while time
\* passes; then the goroutines of Procs make one call each, concurrently with
\* one another and with one sweep pass of each shard's cleanUpCache goroutine.
\* A step of a goroutine is the return of Lock or RLock together with the
\* first read of the shard, or the rest of the method up to its return.

ConcShardCounts == {1, 2}

\* The goroutines that exist: those of Procs and one sweeper for each shard.
Running == Procs \cup {Sweepers[i] : i \in 1..sc.shardCount}

\* No goroutine of Procs has been started and no sweep pass has begun.
Fresh == \A p \in DOMAIN procs : procs[p].pc = "idle"

InitConc ==
    /\ now \in StartTimes
    /\ \E expirationTime \in ExpirationTimes, cleanupTime \in RouterCleanupTimes,
          shardCount \in ConcShardCounts :
         /\ cache = New(expirationTime, cleanupTime, now)
         /\ ticker = [running |-> StartsCleanup(cleanupTime),
                      next |-> now + cleanupTime,
                      panicked |-> FALSE]
         /\ sc = NewShardedCache(shardCount, expirationTime, cleanupTime, now)
         /\ mutex = [i \in 1..shardCount |-> NewMutex]
    /\ written = [k \in Keys |-> NoWrite]
    /\ ret = Call("New")
    /\ scRet = Call("NewShardedCache")
    /\ procs = NoProcs

\* The main goroutine, alone, stores a key that is not there yet.
MainSet(key) ==
    /\ Fresh
    /\ ~IsStored(written[key])
    /\ sc' = ShardedSet(sc, key, "v1", DefaultExpirationTime, now).sc
    /\ written' = [written EXCEPT
                     ![key] = Stored(ShardOf(sc, key), "v1",
                                     DefaultExpirationTime, now)]
    /\ scRet' = ShardedSet(sc, key, "v1", DefaultExpirationTime, now).ret
    /\ UNCHANGED <<now, cache, ticker, ret, mutex, procs>>

\* Time passes before the goroutines are started.
MainTick ==
    /\ Fresh
    /\ now < MaxConcTime
    /\ now' = now + 1
    /\ UNCHANGED <<cache, ticker, written, ret, sc, scRet, mutex, procs>>

\* A goroutine makes its call: the ShardedCache picks the shard with getShard
\* (Flush starts its loop at the first shard; Length is called on the first
\* shard), and the goroutine arrives at the shard's Lock or RLock.
GoCall(p, job) ==
    /\ procs[p].pc = "idle"
    /\ procs' = [procs EXCEPT
                   ![p] = [@ EXCEPT
                             !.pc = "wait",
                             !.job = job,
                             !.shard = IF job.key \in Keys
                                       THEN getShard(sc, job.key).shardIndex + 1
                                       ELSE 1]]
    /\ UNCHANGED <<now, cache, ticker, written, ret, sc, scRet, mutex>>

\* The ticker of shard i has fired: its cleanUpCache goroutine calls
\* removeExpiredEntries and arrives at Lock.
GoSweep(i) ==
    /\ i \in 1..sc.shardCount
    /\ ticker.running
    /\ NewTickerReturns(sc.shards[i].cleanupTime)
    /\ now >= ticker.next
    /\ procs[Sweepers[i]].pc = "idle"
    /\ procs' = [procs EXCEPT
                   ![Sweepers[i]] =
                       [@ EXCEPT !.pc = "wait",
                                 !.job = Job("removeExpiredEntries", "", Nil, 0),
                                 !.shard = i]]
    /\ UNCHANGED <<now, cache, ticker, written, ret, sc, scRet, mutex>>

\* Lock or RLock returns, and the method reads the shard.
GoLock(p) ==
    LET i == procs[p].shard
        read == procs[p].job.op \in ReadOps IN
    /\ procs[p].pc = "wait"
    /\ \A j \in Locks(sc, i) :
          IF read THEN CanRLock(mutex[j]) ELSE CanLock(mutex[j])
    /\ mutex' = [j \in DOMAIN mutex |->
                IF j \in Locks(sc, i)
                THEN IF read THEN RLock(mutex[j]) ELSE Lock(mutex[j])
                ELSE mutex[j]]
    /\ procs' = [procs EXCEPT
                   ![p] = [@ EXCEPT !.pc = "in", !.seen = sc.shards[i]]]
    /\ UNCHANGED <<now, cache, ticker, written, ret, sc, scRet>>

\* The rest of the method, its deferred Unlock or RUnlock and its return;
\* Flush of the ShardedCache goes on to the next shard of its loop.
GoUnlock(p) ==
    LET i == procs[p].shard
        job == procs[p].job
        read == job.op \in ReadOps
        b == Body(job, procs[p].seen, sc.shards[i], now)
        more == job.op = "Flush" /\ i < sc.shardCount IN
    /\ procs[p].pc = "in"
    /\ sc' = [sc EXCEPT !.shards[i] = b.cache]
    /\ mutex' = [j \in DOMAIN mutex |->
                IF j \in Locks(sc, i)
                THEN IF read THEN RUnlock(mutex[j]) ELSE Unlock(mutex[j])
                ELSE mutex[j]]
    /\ procs' = [procs EXCEPT
                   ![p] = [@ EXCEPT
                             !.pc = IF more THEN "wait" ELSE "done",
                             !.shard = IF more THEN i + 1 ELSE i,
                             !.seen = NoCache,
                             !.ret = IF more THEN @ ELSE b.ret]]
    /\ UNCHANGED <<now, cache, ticker, written, ret, scRet>>

NextConc ==
    \/ \E key \in Keys : MainSet(key)
    \/ MainTick
    \/ \E p \in Procs : \E job \in Jobs[p] : GoCall(p, job)
    \/ \E i \in 1..MaxShards : GoSweep(i)
    \/ \E p \in Running : GoLock(p)
    \/ \E p \in Running : GoUnlock(p)

SpecConc == InitConc /\ [][NextConc]_vars

\* The Go scheduler runs every goroutine that can run: a goroutine whose
\* Lock or RLock can return, or that is inside a method, takes its step.
FairConc ==
    \A p \in Procs \cup Range(Sweepers) :
        WF_vars(GoLock(p)) /\ WF_vars(GoUnlock(p))

\* The programs checked for termination: one shard with or without the
\* sweep, or several shards without it.
InitLive == InitConc /\ (sc.shardCount = 1 \/ ~ticker.running)

LiveSpecConc == InitLive /\ [][NextConc]_vars /\ FairConc

\* ------------------------------------------------------------------ claims

SweepEnabled == ticker.running

\* C1: with the sweep enabled, a key stored with the "never" TTL and not
\* deleted, flushed or overwritten since is returned by Get as (v, true) in
\* every later state, however many sweep passes have run.
C1_NeverExpires ==
    SweepEnabled =>
        \A k \in Keys :
            written[k].state = "never" =>
                Get(cache, k) = [content |-> written[k].content, found |-> TRUE]

\* C2: with the sweep enabled, a key stored with a finite positive TTL and not
\* rewritten is reclaimed: in the state a sweep pass leaves, when every sweep
\* that was due has run and the pass ran a sweep interval or more after the
\* TTL ended (and in a later Unix second than the one the TTL ended in, the
\* granularity of the stored timestamp), Get no longer finds the key.
C2_EventuallyReclaimed ==
    (SweepEnabled /\ ret.op = "removeExpiredEntries" /\ ticker.next > now) =>
        \A k \in Keys :
            ( /\ written[k].state = "finite"
              /\ now >= written[k].expiresAt + cache.cleanupTime
              /\ Unix(now) > Unix(written[k].expiresAt) )
            => Get(cache, k) = [content |-> Nil, found |-> FALSE]

\* C3: no entry is removed early: a key stored at t with a finite positive
\* TTL d and not deleted, flushed or overwritten since is found by Get, with
\* the value stored, in every state whose clock is strictly before t + d.
C3_NotRemovedEarly ==
    \A k \in Keys :
        (written[k].state = "finite" /\ now < written[k].expiresAt) =>
            Get(cache, k) = [content |-> written[k].content, found |-> TRUE]

\* A sweep pass has just visited a tracked key whose TTL has not ended, and
\* left it in place.
C3_Witness ==
    /\ ret.op = "removeExpiredEntries"
    /\ \E k \in Keys :
        /\ written[k].state = "finite"
        /\ now < written[k].expiresAt
        /\ Contains(cache.expiringKeys, k)
        /\ Get(cache, k).found

\* C4: an entry stored with the "never" TTL holds the "never" sentinel as its
\* expiration timestamp, and GetWithExpiration returns that sentinel.
C4_NeverSentinelStored ==
    \A k \in Keys :
        (written[k].state = "never" /\ k \in DOMAIN cache.entries) =>
            /\ cache.entries[k].ExpirationTimestamp = NoExpirationTime
            /\ GetWithExpiration(cache, k).expiration = TimeUnix(NoExpirationTime)

\* C5: an Add of a key that is present (expired but unswept included) returns
\* AlreadyExists and leaves the whole Cache as it was: every entry's value
\* and expiration, and the tracked keys.
C5_AddExclusive ==
    [][ \A key \in Keys :
          (ret'.op = "Add" /\ ret'.key = key /\ key \in DOMAIN cache.entries) =>
              (ret'.err = "AlreadyExists" /\ cache' = cache) ]_vars

\* An Add has just been refused on an entry whose expiration second has
\* passed and that no sweep has removed.
C5_Witness ==
    /\ ret.op = "Add"
    /\ ret.err = "AlreadyExists"
    /\ ret.key \in DOMAIN cache.entries
    /\ Expired(cache.entries[ret.key], Unix(now))

\* C6: a Delete of an absent key returns NotFound and changes nothing: the
\* length, the entries and the tracked keys are as before.
C6_DeleteAbsent ==
    [][ \A key \in Keys :
          (ret'.op = "Delete" /\ ret'.key = key /\ key \notin DOMAIN cache.entries) =>
              /\ ret'.err = "NotFound"
              /\ Length(cache') = Length(cache)
              /\ cache' = cache ]_vars

\* A Delete has just been refused while the Cache holds another key.
C6_Witness ==
    /\ ret.op = "Delete"
    /\ ret.err = "NotFound"
    /\ ret.key \notin DOMAIN cache.entries
    /\ Length(cache) > 0
    /\ cache.expiringKeys # <<>>

\* C7: a Delete of a present key succeeds and removes exactly that key: Get
\* no longer finds it, the length is one less, the key is not tracked any
\* more, every other entry and the tracking of every other key are as before;
\* and an absent key becomes present again only by an Add or Set of that key.
C7_DeletePresent ==
    [][ \A key \in Keys :
          /\ (ret'.op = "Delete" /\ ret'.key = key /\ key \in DOMAIN cache.entries) =>
                /\ ret'.err = "nil"
                /\ Get(cache', key) = [content |-> Nil, found |-> FALSE]
                /\ Length(cache') = Length(cache) - 1
                /\ ~Contains(cache'.expiringKeys, key)
                /\ cache'.expiringKeys = removeByValue(cache.expiringKeys, key)
                /\ \A other \in (DOMAIN cache.entries) \ {key} :
                      /\ other \in DOMAIN cache'.entries
                      /\ cache'.entries[other] = cache.entries[other]
          /\ (key \notin DOMAIN cache.entries /\ key \in DOMAIN cache'.entries) =>
                (ret'.op \in {"Add", "Set"} /\ ret'.key = key) ]_vars

\* A Delete has just removed a key that a caller had stored, and another
\* key is still held and tracked.
C7_Witness ==
    /\ ret.op = "Delete"
    /\ ret.err = "nil"
    /\ written[ret.key].state = "Delete"
    /\ Length(cache) > 0
    /\ cache.expiringKeys # <<>>

\* C8: in the state a Flush leaves, Length is 0, Get finds none of the keys
\* (those stored before the Flush included) and no key is tracked.
C8_FlushEmpties ==
    ret.op = "Flush" =>
        /\ Length(cache) = 0
        /\ \A k \in Keys : Get(cache, k) = [content |-> Nil, found |-> FALSE]
        /\ cache.expiringKeys = <<>>

\* A Flush has just removed a key that a caller had stored.
C8_Witness ==
    /\ ret.op = "Flush"
    /\ \E k \in Keys : written[k].state = "Flush"

\* C9: a Cache built with sweep interval 0 or NoExpirationTime has no sweep
\* task and never reclaims: every key stored, with whatever TTL, and not
\* deleted or flushed since is found by Get with its value and counted by
\* Length, whatever the clock shows.
C9_NoSweepNoReclaim ==
    cache.cleanupTime \in {0, NoExpirationTime} =>
        /\ ~ticker.running
        /\ \A k \in Keys :
              IsStored(written[k]) =>
                  Get(cache, k) = [content |-> written[k].content, found |-> TRUE]
        /\ Length(cache) = Cardinality({k \in Keys : IsStored(written[k])})

\* With the sweep disabled, a key is still held seconds after its TTL ended.
C9_Witness ==
    /\ cache.cleanupTime \in {0, NoExpirationTime}
    /\ \E k \in Keys :
        /\ written[k].state = "finite"
        /\ Unix(now) > Unix(written[k].expiresAt)
        /\ Get(cache, k).found

\* C10: Get does no expiration of its own and agrees with Length: Get finds a
\* key exactly when the key is in entries, whatever its expiration timestamp,
\* and Length is the number of keys Get finds.
C10_GetIsLazy ==
    /\ \A k \in Keys : Get(cache, k).found <=> k \in DOMAIN cache.entries
    /\ Length(cache) = Cardinality({k \in Keys : Get(cache, k).found})
    /\ ret.op = "Get" =>
          /\ ret.found <=> ret.key \in DOMAIN cache.entries
          /\ ret.found => ret.content = cache.entries[ret.key].Content
    /\ ret.op = "Length" =>
          ret.n = Cardinality({k \in Keys : Get(cache, k).found})

\* A Get has just found an entry whose expiration second has passed.
C10_Witness ==
    /\ ret.op = "Get"
    /\ ret.found
    /\ ret.key \in DOMAIN cache.entries
    /\ Expired(cache.entries[ret.key], Unix(now))

\* C11: New starts the sweep task only for a strictly positive sweep interval:
\* built with interval 0 or any negative interval, the Cache has no sweep
\* goroutine in any state.
C11_SweepOnlyIfPositive ==
    ticker.running => cache.cleanupTime > 0

\* The ShardedCache methods that take a key.
KeyOps == {"Get", "GetWithExpiration", "Add", "Set", "Delete"}

\* A ShardedCache was returned and its shardCount is at least 1.
RouterUsable == sc.built /\ sc.shardCount >= 1

\* hash(k) mod shardCount, as a position in the sequence of shards.
HashShard(key) == Sum32Mod(KeyHash[key], sc.shardCount) + 1

\* The shards that hold key in entries or in expiringKeys.
Holders(s, key) ==
    {i \in 1..s.shardCount :
        \/ key \in DOMAIN s.shards[i].entries
        \/ Contains(s.shards[i].expiringKeys, key)}

\* C12: NewShardedCache fails for shardCount < 1: no ShardedCache with
\* shardCount below 1 is returned, and no later Get, GetWithExpiration, Add,
\* Set or Delete panics inside getShard.
C12_ShardCountRejected ==
    /\ sc.built => sc.shardCount >= 1
    /\ scRet.op \in KeyOps => scRet.err # "panic"

\* C13: with shardCount >= 1, every call on key k changes no shard other than
\* shard hash(k) mod shardCount and returns what that shard returns; k is
\* held and tracked by no other shard, and after Set that shard holds k with
\* the content that was set.
C13_SameShard ==
    [][ (RouterUsable /\ scRet'.op \in KeyOps) =>
          LET key == scRet'.key
              h == HashShard(key) IN
          /\ scRet'.err # "panic"
          /\ \A i \in 1..sc.shardCount : i # h => sc'.shards[i] = sc.shards[i]
          /\ \A k \in Keys : Holders(sc', k) \subseteq {HashShard(k)}
          /\ scRet'.op = "Get" =>
                /\ scRet'.found = Get(sc.shards[h], key).found
                /\ scRet'.content = Get(sc.shards[h], key).content
          /\ scRet'.op = "GetWithExpiration" =>
                /\ scRet'.found = GetWithExpiration(sc.shards[h], key).found
                /\ scRet'.expiration =
                       GetWithExpiration(sc.shards[h], key).expiration
          /\ scRet'.op = "Add" =>
                /\ scRet'.err = Add(sc.shards[h], key, Nil, 0, now).err
                /\ key \in DOMAIN sc'.shards[h].entries
          /\ scRet'.op = "Delete" =>
                /\ scRet'.err = Delete(sc.shards[h], key).err
                /\ Holders(sc', key) = {}
          /\ scRet'.op = "Set" =>
                /\ key \in DOMAIN sc'.shards[h].entries
                /\ sc'.shards[h].entries[key].Content = written'[key].content
      ]_vars

\* A Set has just stored a key in the second of two shards while the first
\* shard holds the other key.
C13_Witness ==
    /\ sc.built
    /\ sc.shardCount = 2
    /\ scRet.op = "Set"
    /\ HashShard(scRet.key) = 2
    /\ scRet.key \in DOMAIN sc.shards[2].entries
    /\ \E k \in Keys : HashShard(k) = 1 /\ k \in DOMAIN sc.shards[1].entries

\* C14: called one after the other with the same arguments at the same
\* instants, a ShardedCache with shardCount >= 1 and one Cache built with the
\* same default TTL and sweep interval return the same contents, found flags,
\* expirations and errors from Get, GetWithExpiration, Add, Set, Delete and
\* Flush, and what a next Get or GetWithExpiration would return is the same
\* for every key.
C14_SameAsOneCache ==
    RouterUsable =>
        /\ scRet.op \in KeyOps \cup {"Flush"} => scRet = ret
        /\ \A k \in Keys :
              /\ ShardedGet(sc, k).ret.found = Get(cache, k).found
              /\ ShardedGet(sc, k).ret.content = Get(cache, k).content
              /\ ShardedGetWithExpiration(sc, k).ret.expiration =
                     GetWithExpiration(cache, k).expiration

\* With two shards both holding a key, Add has just refused a key that is
\* already there, as the one Cache did.
C14_Witness ==
    /\ sc.built
    /\ sc.shardCount = 2
    /\ scRet.op = "Add"
    /\ scRet.err = "AlreadyExists"
    /\ ret.err = "AlreadyExists"
    /\ \A i \in 1..2 : Length(sc.shards[i]) = 1

\* The goroutines between the lock and the unlock of shard i.
Inside(i) == {p \in DOMAIN procs : procs[p].pc = "in" /\ procs[p].shard = i}
WritersInside(i) == {p \in Inside(i) : procs[p].job.op \in WriteOps}
ReadersInside(i) == {p \in Inside(i) : procs[p].job.op \in ReadOps}

\* C15: each iteration of ShardedCache.Flush clears one shard, in index
\* order, changing no other shard and holding no mutex but that shard's: the
\* mutexes of the other shards are held only by the goroutines inside them,
\* and the iteration leaves them as they were.
C15_FlushShardByShard ==
    [][ \A p \in Procs :
          ( /\ procs[p].job.op = "Flush"
            /\ procs[p].pc = "in"
            /\ procs'[p].pc # "in" ) =>
              LET i == procs[p].shard IN
              /\ sc'.shards[i].entries = EmptyEntries
              /\ sc'.shards[i].expiringKeys = <<>>
              /\ \A j \in 1..sc.shardCount : j # i =>
                    /\ sc'.shards[j] = sc.shards[j]
                    /\ mutex'[j] = mutex[j]
                    /\ mutex[j].writer => WritersInside(j) # {}
              /\ IF i < sc.shardCount
                 THEN procs'[p].pc = "wait" /\ procs'[p].shard = i + 1
                 ELSE procs'[p].pc = "done"
      ]_vars

\* With no sweep, Flush has cleared the first of two shards and waits for
\* the second, which still holds the key stored before Flush began; a Get
\* of the key that was stored in the first shard has returned (nil, false).
C15_Witness ==
    /\ ~ticker.running
    /\ sc.shardCount = 2
    /\ procs["w1"].job.op = "Flush"
    /\ procs["w1"].pc = "wait"
    /\ procs["w1"].shard = 2
    /\ IsStored(written["a"])
    /\ Length(sc.shards[1]) = 0
    /\ "b" \in DOMAIN sc.shards[2].entries
    /\ procs["r"].pc = "done"
    /\ procs["r"].job = Job("Get", "a", Nil, 0)
    /\ ~procs["r"].ret.found

\* The contents stored for a key so far: by the main goroutine, and by the
\* writer of the key once it has called Set.
ContentsSet(key) ==
    {written[key].content : k \in {key} \cap {x \in Keys : IsStored(written[x])}}
    \cup {procs[p].job.content :
            p \in {q \in Procs : /\ procs[q].job.op = "Set"
                                 /\ procs[q].job.key = key}}

\* C16: with the sweep disabled and the writers calling Set on different
\* keys while the others call Get, every Get that has returned gave
\* (nil, false) or a content stored for its key; once both writers have
\* returned, each written key is there with the content its writer stored
\* and the lengths of the shards add up to the number of keys written.
C16_NoLostUpdate ==
    ( /\ ~ticker.running
      /\ procs["w1"].job.op \in {"none", "Set"}
      /\ procs["w2"].job.op \in {"none", "Set", "Get"} ) =>
        /\ \A p \in Procs :
              (procs[p].pc = "done" /\ procs[p].job.op = "Get") =>
                  IF procs[p].ret.found
                  THEN procs[p].ret.content \in ContentsSet(procs[p].job.key)
                  ELSE procs[p].ret.content = Nil
        /\ ( /\ procs["w1"].pc = "done" /\ procs["w1"].job.op = "Set"
             /\ procs["w2"].pc = "done" /\ procs["w2"].job.op = "Set" ) =>
               /\ \A p \in {"w1", "w2"} :
                     Get(ShardOf(sc, procs[p].job.key), procs[p].job.key) =
                         [content |-> procs[p].job.content, found |-> TRUE]
               /\ Length(sc.shards[1])
                    + (IF sc.shardCount = 2 THEN Length(sc.shards[2]) ELSE 0)
                  = Cardinality({procs[p].job.key : p \in {"w1", "w2"}})

\* On one shard with no sweep, both writers have returned from Set and the
\* reader has returned from a Get that found what a writer stored.
C16_Witness ==
    /\ ~ticker.running
    /\ sc.shardCount = 1
    /\ \A p \in {"w1", "w2"} : procs[p].pc = "done" /\ procs[p].job.op = "Set"
    /\ procs["r"].pc = "done"
    /\ procs["r"].job.op = "Get"
    /\ procs["r"].ret.found
    /\ procs["r"].ret.content = "v2"
    /\ Length(sc.shards[1]) = 2

\* C17: on every shard at most one of Add, Set, Delete, Flush and the sweep
\* pass is between its Lock and Unlock, and then no Get, GetWithExpiration
\* or Length is between its RLock and RUnlock; what a goroutine read of the
\* shard after taking the lock is still the shard; and once goroutines run,
\* a shard changes only in a step of a goroutine that holds its write lock.
C17_LockDiscipline ==
    /\ [](\A i \in 1..sc.shardCount :
            /\ Cardinality(WritersInside(i)) <= 1
            /\ WritersInside(i) # {} => ReadersInside(i) = {}
            /\ mutex[i].writer <=> WritersInside(i) # {}
            /\ \A p \in Inside(i) : procs[p].seen = sc.shards[i])
    /\ [][ \A i \in 1..sc.shardCount :
             (~Fresh /\ sc'.shards[i] # sc.shards[i]) =>
                 \E p \in WritersInside(i) : procs'[p].pc # "in" ]_vars

\* Two readers are between RLock and RUnlock of the same shard.
C17_Witness ==
    \E i \in 1..sc.shardCount :
        /\ Cardinality(ReadersInside(i)) = 2
        /\ mutex[i].readers = 2
        /\ Length(sc.shards[i]) > 0

\* C18: when the main goroutine stored key "a" and the first writer calls
\* Set on it or nothing, a GetWithExpiration of the key that found it
\* returned the content and expiration the main goroutine stored, or the
\* content and expiration of the writer's Set.
C18_WholeEntry ==
    LET r == procs["r"]
        w == procs["w1"]
        old == [content |-> written["a"].content,
                expiration |-> TimeUnix(Unix(written["a"].expiresAt))]
        new == [content |-> w.job.content,
                expiration |->
                    TimeUnix(Expiration(ShardOf(sc, "a"), w.job.ttl, now))] IN
    ( /\ r.pc = "done"
      /\ r.job.op = "GetWithExpiration"
      /\ r.ret.found
      /\ IsStored(written["a"])
      /\ w.job.op \in {"none", "Set"} ) =>
        LET got == [content |-> r.ret.content,
                    expiration |-> r.ret.expiration] IN
        \/ got = old
        \/ w.job.op = "Set" /\ got = new

\* GetWithExpiration has returned the whole entry of the writer's Set, whose
\* content and expiration both differ from those of the entry it replaced.
C18_Witness ==
    /\ IsStored(written["a"])
    /\ procs["w1"].pc = "done"
    /\ procs["w1"].job.op = "Set"
    /\ procs["r"].pc = "done"
    /\ procs["r"].job.op = "GetWithExpiration"
    /\ procs["r"].ret.found
    /\ procs["r"].ret.content = "v2"
    /\ procs["r"].ret.content # written["a"].content
    /\ procs["r"].ret.expiration # TimeUnix(Unix(written["a"].expiresAt))

\* C19: a mutex is held exactly by the goroutines inside its own shard, so a
\* call holds the mutex of one shard and no other; and whatever is held on
\* the other shards, Lock and RLock of a shard with no goroutine inside
\* return.
C19_NoCrossShardContention ==
    \A i \in 1..sc.shardCount :
        /\ mutex[i].writer <=> WritersInside(i) # {}
        /\ mutex[i].readers = Cardinality(ReadersInside(i))
        /\ Inside(i) = {} => CanLock(mutex[i]) /\ CanRLock(mutex[i])
        /\ WritersInside(i) = {} => CanRLock(mutex[i])

\* The two writers are inside different shards at once, each holding the
\* write lock of its shard, while the reader waits for one of them.
C19_Witness ==
    /\ sc.shardCount = 2
    /\ procs["w1"].pc = "in"
    /\ procs["w2"].pc = "in"
    /\ procs["w1"].shard # procs["w2"].shard
    /\ procs["w1"].job.op \in WriteOps
    /\ procs["w2"].job.op \in WriteOps
    /\ procs["r"].pc = "wait"

\* C20: in the state a sweep pass leaves, no entry remains whose expiration
\* timestamp is not the "never" sentinel and is strictly less than the Unix
\* second the pass read, whether or not its key was tracked.
C20_SweepLeavesNoExpired ==
    ret.op = "removeExpiredEntries" =>
        \A k \in DOMAIN cache.entries :
            ~( /\ cache.entries[k].ExpirationTimestamp # NoExpirationTime
               /\ cache.entries[k].ExpirationTimestamp < Unix(now) )

\* C21: with the sweep running, after every Add or Set that stored key k, k
\* is among the tracked keys exactly when its new expiration timestamp is at
\* or before the instant of the next sweep the ticker has scheduled.
C21_TrackedFollowsNextSweep ==
    ( /\ SweepEnabled
      /\ Alive
      /\ cache.cleanupTime > 0
      /\ ret.op \in {"Add", "Set"}
      /\ ret.err = "nil" ) =>
        ( Contains(cache.expiringKeys, ret.key)
            <=> TimeUnix(cache.entries[ret.key].ExpirationTimestamp)
                    <= ticker.next )

\* How many times key occurs in a list of keys.
Occurrences(keys, key) == Cardinality({i \in 1..Len(keys) : keys[i] = key})

\* C22: between calls, when no writer holds the mutex, every tracked key is
\* a key of entries.
C22_TrackedAreEntries ==
    Range(cache.expiringKeys) \subseteq DOMAIN cache.entries

\* A sweep pass has just removed an entry and left another key tracked.
C22_Witness ==
    /\ ret.op = "removeExpiredEntries"
    /\ ret.n > 0
    /\ cache.expiringKeys # <<>>
    /\ Length(cache) > 0

\* C23: no key occurs twice among the tracked keys; after Set the key occurs
\* once if its expiration is at or before nextCleanupTime and not at all
\* otherwise, and after Delete it does not occur.
C23_TrackedOnce ==
    /\ \A k \in Keys : Occurrences(cache.expiringKeys, k) <= 1
    /\ ret.op = "Set" =>
          Occurrences(cache.expiringKeys, ret.key) =
              IF cache.entries[ret.key].ExpirationTimestamp
                     <= cache.nextCleanupTime
              THEN 1 ELSE 0
    /\ (ret.op = "Delete" /\ ret.err = "nil") =>
          Occurrences(cache.expiringKeys, ret.key) = 0

\* Both keys are tracked, and the key Set last, stored with the "never" TTL
\* and already past its expiration second, is the last of the list.
C23_Witness ==
    /\ ret.op = "Set"
    /\ Len(cache.expiringKeys) = 2
    /\ cache.expiringKeys[2] = ret.key
    /\ written[ret.key].state = "never"
    /\ cache.entries[ret.key].ExpirationTimestamp < Unix(now)

\* C24: a sweep pass adds no key to entries, leaves every surviving entry as
\* it was and tracks no key that was not tracked before; and in any step the
\* expiration timestamp of a key that stays stored changes only when the
\* step is a Set of that key.
C24_SweepOnlyRemoves ==
    [][ /\ ret'.op = "removeExpiredEntries" =>
              /\ DOMAIN cache'.entries \subseteq DOMAIN cache.entries
              /\ \A k \in DOMAIN cache'.entries :
                    cache'.entries[k] = cache.entries[k]
              /\ Range(cache'.expiringKeys) \subseteq Range(cache.expiringKeys)
        /\ \A k \in DOMAIN cache.entries \cap DOMAIN cache'.entries :
              cache'.entries[k].ExpirationTimestamp
                  # cache.entries[k].ExpirationTimestamp
              => ret'.op = "Set" /\ ret'.key = k
      ]_vars

\* A sweep pass has removed an entry and left an entry that is not tracked.
C24_Witness ==
    /\ ret.op = "removeExpiredEntries"
    /\ ret.n > 0
    /\ \E k \in DOMAIN cache.entries : ~Contains(cache.expiringKeys, k)

\* The mutexes a goroutine holds.
Held(p) ==
    IF procs[p].pc = "in" THEN Locks(sc, procs[p].shard) ELSE {}

\* No goroutine is at a Lock or RLock or inside a method: every call that
\* was made and every sweep pass that has begun has returned.
AllReturned == \A p \in DOMAIN procs : procs[p].pc \in {"idle", "done"}

\* C25: a goroutine holds the mutex of at most one shard at a time, and when
\* all the calls made have returned, whatever they returned, no mutex is
\* held; and under fair scheduling the calls that were made and the sweep
\* passes that have begun always all return (a goroutine makes one call, so
\* a call that never returned would keep AllReturned false for ever).
C25_EveryCallReturns ==
    /\ [](\A p \in DOMAIN procs : Cardinality(Held(p)) <= 1)
    /\ [](AllReturned => \A i \in 1..sc.shardCount : mutex[i] = NewMutex)
    /\ []<>AllReturned

\* Every goroutine has returned and every mutex is free, after an Add that
\* returned AlreadyExists, on the one shard that the other calls and a sweep
\* pass also went through.
C25_Witness ==
    /\ sc.shardCount = 1
    /\ \A p \in Procs \cup {Sweepers[1]} : procs[p].pc = "done"
    /\ procs["w1"].job.op = "Add"
    /\ procs["w1"].ret.err = "AlreadyExists"
    /\ mutex[1] = NewMutex

====
